---- MODULE Spec2Model ----
(***************************************************************************)
(* Model of the interactive Kanban board of Todo-List: the task store of   *)
(* models.py, the KanbanBoard controller and the TodoApp key handlers of   *)
(* tui.py, with the modal dialogs that collect a title or a confirmation.  *)
(***************************************************************************)
EXTENDS Integers, Sequences, FiniteSets, TLC

(* ------------------------------ bounds --------------------------------- *)
\* most rows the tasks table may hold
MaxTasks == 2
\* most rows it may hold in the run of the two-column scenario (A, B and C)
ScenarioTasks == 3

(* --------------------------- values ------------------------------------ *)
\* Python's None where an int is expected (original_column_idx)
None == -1
\* Python's None where a Task is expected (moving_task, get_current_task)
NoTask == [id |-> 0, title |-> <<>>, column_id |-> 0, position |-> 0]
\* Python's None where a modal's str result is expected
NoTitle == <<"None">>
\* a title is a sequence of characters; this one is whitespace
SPACE == " "

\* the rows of the columns table, ordered by position (get_all_columns)
columns ==
  << [id |-> 1, name |-> "Todo"],
     [id |-> 2, name |-> "Doing"],
     [id |-> 3, name |-> "Done"] >>

ColumnIds == {columns[i].id : i \in 1..Len(columns)}

\* self.columns[idx] with Python's zero-based index
column_at(idx) == columns[idx + 1]

VARIABLES
  tasks,                \* the rows of the tasks table
  tasks_by_column,      \* KanbanBoard.tasks_by_column: col.id -> list of Task
  active_column,        \* KanbanBoard.active_column (zero-based)
  cursor_positions,     \* KanbanBoard.cursor_positions: col.id -> index
  moving_task,          \* KanbanBoard.moving_task
  original_column_idx,  \* KanbanBoard.original_column_idx
  status,               \* text of the #status-bar widget
  exported,             \* the file the last handler wrote, if any
  pre,                  \* history: the board as it was just before pick-up
  capacity,             \* the rows the tasks table has room for in this run
  last                  \* history: the handler that ran last

boardvars == << tasks, tasks_by_column, active_column, cursor_positions,
                moving_task, original_column_idx >>
appvars == << status, exported >>
vars == << tasks, tasks_by_column, active_column, cursor_positions,
           moving_task, original_column_idx, status, exported,
           pre, capacity, last >>

(* ------------------------ pure helpers --------------------------------- *)
Min(a, b) == IF a < b THEN a ELSE b
Max(a, b) == IF a > b THEN a ELSE b

\* str.strip(): drop leading and trailing whitespace
RECURSIVE lstrip(_)
lstrip(s) == IF s # <<>> /\ Head(s) = SPACE THEN lstrip(Tail(s)) ELSE s

RECURSIVE rstrip(_)
rstrip(s) ==
  IF s # <<>> /\ s[Len(s)] = SPACE THEN rstrip(SubSeq(s, 1, Len(s) - 1)) ELSE s

strip(s) == rstrip(lstrip(s))

\* Python truthiness of a str | None
truthy(s) == s # NoTitle /\ s # <<>>

(* ----------------------------- models.py ------------------------------- *)
\* SELECT * FROM columns WHERE LOWER(name) = LOWER(?)
get_column_by_name(name) ==
  CHOOSE c \in {columns[i] : i \in 1..Len(columns)} : c.name = name

\* rows ordered by position
RECURSIVE OrderByPosition(_)
OrderByPosition(rows) ==
  IF rows = {} THEN <<>>
  ELSE LET t == CHOOSE t \in rows :
                  \A u \in rows : t.position < u.position
                                  \/ (t.position = u.position /\ t.id <= u.id)
       IN <<t>> \o OrderByPosition(rows \ {t})

\* SELECT * FROM tasks WHERE column_id = ? ORDER BY position
get_tasks_by_column(store, column_id) ==
  OrderByPosition({t \in store : t.column_id = column_id})

\* SELECT * FROM tasks WHERE id = ?
get_task_by_id(store, task_id) ==
  IF \E t \in store : t.id = task_id
  THEN CHOOSE t \in store : t.id = task_id
  ELSE NoTask

\* an insert position taken from COUNT(*) of the column
next_position_count(store, column_id) ==
  Cardinality({t \in store : t.column_id = column_id})

\* an insert position that is always the head of the column
next_position_head(store, column_id) == 0

\* SELECT COALESCE(MAX(position), -1) + 1 FROM tasks WHERE column_id = ?
next_position(store, column_id) ==
  LET ps == {t.position : t \in {u \in store : u.column_id = column_id}}
  IN IF ps = {} THEN 0 ELSE (CHOOSE p \in ps : \A q \in ps : q <= p) + 1

\* cursor.lastrowid of the INSERT: the rowid the table gives the new row, one
\* that no row holds. Rows are told apart by id and by nothing else of it, so
\* the least free id stands for whichever the table picks.
lastrowid(store) ==
  LET ids == {t.id : t \in store}
  IN CHOOSE i \in 1..(Cardinality(store) + 1) :
       i \notin ids /\ \A j \in 1..(i - 1) : j \in ids

\* models.add_task: the store after the INSERT
add_task_row(store, title, column_name) ==
  LET column == get_column_by_name(column_name)
  IN store \cup {[id |-> lastrowid(store), title |-> title,
                  column_id |-> column.id,
                  position |-> next_position(store, column.id)]}

\* models.move_task: the store after the UPDATE
move_task(store, task_id, target_column_name) ==
  LET column == get_column_by_name(target_column_name)
      position == next_position(store, column.id)
  IN {IF t.id = task_id
      THEN [t EXCEPT !.column_id = column.id, !.position = position]
      ELSE t : t \in store}

\* an UPDATE without its WHERE clause: every row takes the title
update_task_every_row(store, task_id, title) ==
  {[t EXCEPT !.title = title] : t \in store}

\* models.update_task with only title given
update_task(store, task_id, title) ==
  {IF t.id = task_id THEN [t EXCEPT !.title = title] ELSE t : t \in store}

\* a DELETE whose WHERE clause names the column of the task, not its id
delete_task_whole_column(store, task_id) ==
  {t \in store : \A u \in store : u.id = task_id => t.column_id # u.column_id}

\* models.delete_task: the store after the DELETE
delete_task(store, task_id) == {t \in store : t.id # task_id}

(* --------------------------- KanbanBoard ------------------------------- *)
\* a clamp that keeps the stored index of a column that holds no task
reconcile_keeps_on_empty(idx, n) == IF n > 0 THEN Min(idx, n - 1) ELSE idx

\* a clamp that steps one below the stored index on every reload
reconcile_steps_back(idx, n) ==
  IF n > 0 THEN Max(0, Min(idx, n - 1) - 1) ELSE 0

\* refresh_data that keeps the stored index whatever the column holds
reconcile_unclamped(idx, n) == idx

\* the clamp of refresh_data for one column holding n tasks
reconcile(idx, n) == IF n > 0 THEN Min(idx, n - 1) ELSE 0

\* KanbanBoard.refresh_data: the snapshot and the cursors after a reload
refresh_data(store, cursors) ==
  LET snapshot == [c \in ColumnIds |-> get_tasks_by_column(store, c)]
  IN [tasks_by_column |-> snapshot,
      cursor_positions |->
        [c \in ColumnIds |-> reconcile(cursors[c], Len(snapshot[c]))]]

\* KanbanBoard.rebuild: refresh_data, then the column widgets are remounted
rebuild(store, cursors) ==
  LET r == refresh_data(store, cursors)
  IN /\ tasks_by_column' = r.tasks_by_column
     /\ cursor_positions' = r.cursor_positions

\* get_current_task that ignores the cursor and answers the column's first task
current_task_first(snapshot, cursors, active) ==
  LET col_tasks == snapshot[column_at(active).id]
  IN IF col_tasks # <<>> THEN col_tasks[1] ELSE NoTask

\* KanbanBoard.get_current_task on a given snapshot
current_task(snapshot, cursors, active) ==
  LET col == column_at(active)
      col_tasks == snapshot[col.id]
      pos == cursors[col.id]
  IN IF col_tasks # <<>> /\ 0 <= pos /\ pos < Len(col_tasks)
     THEN col_tasks[pos + 1]
     ELSE NoTask

get_current_task == current_task(tasks_by_column, cursor_positions, active_column)

\* is_moving that reports a move only while the origin column is active
is_moving_in_origin ==
  moving_task # NoTask /\ original_column_idx = active_column

\* is_moving that never reports a move
is_moving_never == FALSE

is_moving == moving_task # NoTask

\* move_cursor_left that puts the cursor of the column it enters on its first
\* task
move_cursor_left_to_top ==
  /\ IF active_column > 0
     THEN /\ active_column' = active_column - 1
          /\ rebuild(tasks, [cursor_positions EXCEPT
                               ![column_at(active_column - 1).id] = 0])
     ELSE UNCHANGED << active_column, tasks_by_column, cursor_positions >>
  /\ UNCHANGED << tasks, moving_task, original_column_idx >>

move_cursor_left ==
  /\ IF active_column > 0
     THEN /\ active_column' = active_column - 1
          /\ rebuild(tasks, cursor_positions)
     ELSE UNCHANGED << active_column, tasks_by_column, cursor_positions >>
  /\ UNCHANGED << tasks, moving_task, original_column_idx >>

\* move_cursor_right whose reload drops the task being moved
move_cursor_right_drops_move ==
  /\ IF active_column < Len(columns) - 1
     THEN /\ active_column' = active_column + 1
          /\ rebuild(tasks, cursor_positions)
          /\ moving_task' = NoTask
          /\ original_column_idx' = None
     ELSE UNCHANGED << active_column, tasks_by_column, cursor_positions,
                       moving_task, original_column_idx >>
  /\ UNCHANGED tasks

move_cursor_right ==
  /\ IF active_column < Len(columns) - 1
     THEN /\ active_column' = active_column + 1
          /\ rebuild(tasks, cursor_positions)
     ELSE UNCHANGED << active_column, tasks_by_column, cursor_positions >>
  /\ UNCHANGED << tasks, moving_task, original_column_idx >>

move_cursor_up ==
  LET col == column_at(active_column)
      col_tasks == tasks_by_column[col.id]
      pos == cursor_positions[col.id]
  IN /\ IF moving_task = NoTask /\ col_tasks # <<>> /\ pos > 0
        THEN rebuild(tasks, [cursor_positions EXCEPT ![col.id] = pos - 1])
        ELSE UNCHANGED << tasks_by_column, cursor_positions >>
     /\ UNCHANGED << tasks, active_column, moving_task, original_column_idx >>

\* move_cursor_down without its early return while a task is being moved
move_cursor_down_unguarded ==
  LET col == column_at(active_column)
      col_tasks == tasks_by_column[col.id]
      pos == cursor_positions[col.id]
  IN /\ IF col_tasks # <<>> /\ pos < Len(col_tasks) - 1
        THEN rebuild(tasks, [cursor_positions EXCEPT ![col.id] = pos + 1])
        ELSE UNCHANGED << tasks_by_column, cursor_positions >>
     /\ UNCHANGED << tasks, active_column, moving_task, original_column_idx >>

move_cursor_down ==
  LET col == column_at(active_column)
      col_tasks == tasks_by_column[col.id]
      pos == cursor_positions[col.id]
  IN /\ IF moving_task = NoTask /\ col_tasks # <<>> /\ pos < Len(col_tasks) - 1
        THEN rebuild(tasks, [cursor_positions EXCEPT ![col.id] = pos + 1])
        ELSE UNCHANGED << tasks_by_column, cursor_positions >>
     /\ UNCHANGED << tasks, active_column, moving_task, original_column_idx >>

\* start_moving_task that records the first column as the origin
start_moving_task_from_first ==
  LET task == get_current_task
  IN /\ IF task # NoTask
        THEN /\ moving_task' = task
             /\ original_column_idx' = 0
             /\ rebuild(tasks, cursor_positions)
        ELSE UNCHANGED << moving_task, original_column_idx,
                          tasks_by_column, cursor_positions >>
     /\ UNCHANGED << tasks, active_column >>

\* KanbanBoard.start_moving_task; it returns get_current_task() is not None
start_moving_task ==
  LET task == get_current_task
  IN /\ IF task # NoTask
        THEN /\ moving_task' = task
             /\ original_column_idx' = active_column
             /\ rebuild(tasks, cursor_positions)
        ELSE UNCHANGED << moving_task, original_column_idx,
                          tasks_by_column, cursor_positions >>
     /\ UNCHANGED << tasks, active_column >>

\* confirm_move that forgets to clear original_column_idx
confirm_move_keeps_origin ==
  IF moving_task = NoTask
  THEN UNCHANGED boardvars
  ELSE LET target_col == column_at(active_column)
           store == IF original_column_idx # active_column
                    THEN move_task(tasks, moving_task.id, target_col.name)
                    ELSE tasks
           r == refresh_data(store, cursor_positions)
           placed == [r.cursor_positions EXCEPT ![target_col.id] =
                        Max(0, Len(r.tasks_by_column[target_col.id]) - 1)]
       IN /\ tasks' = store
          /\ moving_task' = NoTask
          /\ rebuild(store, placed)
          /\ UNCHANGED << active_column, original_column_idx >>

\* confirm_move that repositions the task even when the column is its own
confirm_move_always_repositions ==
  IF moving_task = NoTask
  THEN UNCHANGED boardvars
  ELSE LET target_col == column_at(active_column)
           store == move_task(tasks, moving_task.id, target_col.name)
           r == refresh_data(store, cursor_positions)
           placed == [r.cursor_positions EXCEPT ![target_col.id] =
                        Max(0, Len(r.tasks_by_column[target_col.id]) - 1)]
       IN /\ tasks' = store
          /\ moving_task' = NoTask
          /\ original_column_idx' = None
          /\ rebuild(store, placed)
          /\ UNCHANGED active_column

\* KanbanBoard.confirm_move; it returns moving_task is not None
confirm_move ==
  IF moving_task = NoTask
  THEN UNCHANGED boardvars
  ELSE LET target_col == column_at(active_column)
           store == IF original_column_idx # active_column
                    THEN move_task(tasks, moving_task.id, target_col.name)
                    ELSE tasks
           r == refresh_data(store, cursor_positions)
           placed == [r.cursor_positions EXCEPT ![target_col.id] =
                        Max(0, Len(r.tasks_by_column[target_col.id]) - 1)]
       IN /\ tasks' = store
          /\ moving_task' = NoTask
          /\ original_column_idx' = None
          /\ rebuild(store, placed)
          /\ UNCHANGED active_column

\* cancel_move that goes back to the origin column with the task still held
cancel_move_keeps_task ==
  IF moving_task = NoTask
  THEN UNCHANGED boardvars
  ELSE /\ active_column' = IF original_column_idx # None
                           THEN original_column_idx
                           ELSE active_column
       /\ rebuild(tasks, cursor_positions)
       /\ UNCHANGED << tasks, moving_task, original_column_idx >>

\* cancel_move that leaves the active column where the user navigated to
cancel_move_in_place ==
  IF moving_task = NoTask
  THEN UNCHANGED boardvars
  ELSE /\ moving_task' = NoTask
       /\ original_column_idx' = None
       /\ rebuild(tasks, cursor_positions)
       /\ UNCHANGED << tasks, active_column >>

\* KanbanBoard.cancel_move; it returns moving_task is not None
cancel_move ==
  IF moving_task = NoTask
  THEN UNCHANGED boardvars
  ELSE /\ active_column' = IF original_column_idx # None
                           THEN original_column_idx
                           ELSE active_column
       /\ moving_task' = NoTask
       /\ original_column_idx' = None
       /\ rebuild(tasks, cursor_positions)
       /\ UNCHANGED tasks

\* add_task that inserts the row and reloads nothing
add_task_without_refresh(title) ==
  /\ tasks' = add_task_row(tasks, title, column_at(active_column).name)
  /\ UNCHANGED << tasks_by_column, cursor_positions, active_column,
                  moving_task, original_column_idx >>

\* KanbanBoard.add_task(title)
add_task(title) ==
  LET col == column_at(active_column)
      store == add_task_row(tasks, title, col.name)
      r == refresh_data(store, cursor_positions)
      added == [r.cursor_positions EXCEPT ![col.id] =
                  Max(0, Len(r.tasks_by_column[col.id]) - 1)]
  IN /\ tasks' = store
     /\ rebuild(store, added)
     /\ UNCHANGED << active_column, moving_task, original_column_idx >>

\* delete_current_task that follows the task before the deleted one
delete_current_task_steps_back ==
  LET task == get_current_task
  IN IF task = NoTask
     THEN UNCHANGED boardvars
     ELSE LET store == delete_task(tasks, task.id)
              r == refresh_data(store, cursor_positions)
              col == column_at(active_column)
              back == [r.cursor_positions EXCEPT ![col.id] =
                         Max(0, cursor_positions[col.id] - 1)]
          IN /\ tasks' = store
             /\ rebuild(store, back)
             /\ UNCHANGED << active_column, moving_task, original_column_idx >>

\* delete_current_task that leaves the cursor on the column's last task
delete_current_task_selects_last ==
  LET task == get_current_task
  IN IF task = NoTask
     THEN UNCHANGED boardvars
     ELSE LET store == delete_task(tasks, task.id)
              r == refresh_data(store, cursor_positions)
              col == column_at(active_column)
              col_tasks == r.tasks_by_column[col.id]
              last_idx == [r.cursor_positions EXCEPT ![col.id] =
                             Max(0, Len(col_tasks) - 1)]
          IN /\ tasks' = store
             /\ rebuild(store, last_idx)
             /\ UNCHANGED << active_column, moving_task, original_column_idx >>

\* KanbanBoard.delete_current_task; it returns get_current_task() is not None
delete_current_task ==
  LET task == get_current_task
  IN IF task = NoTask
     THEN UNCHANGED boardvars
     ELSE LET store == delete_task(tasks, task.id)
              r == refresh_data(store, cursor_positions)
              col == column_at(active_column)
              col_tasks == r.tasks_by_column[col.id]
              pos == r.cursor_positions[col.id]
              clamped == IF pos >= Len(col_tasks) /\ col_tasks # <<>>
                         THEN [r.cursor_positions EXCEPT ![col.id] =
                                 Len(col_tasks) - 1]
                         ELSE r.cursor_positions
          IN /\ tasks' = store
             /\ rebuild(store, clamped)
             /\ UNCHANGED << active_column, moving_task, original_column_idx >>

(* ------------------------------ TodoApp -------------------------------- *)
Msg(text, arg) == [text |-> text, arg |-> arg]
NoMessage == Msg("", <<>>)
BlockedMessage == Msg("Finish moving first (Enter or Esc)", <<>>)

NoFile == [filename |-> "", lines |-> <<>>]
NoPre == [tasks |-> {}, tasks_by_column |-> [c \in ColumnIds |-> <<>>],
          active_column |-> None, cursor_positions |-> [c \in ColumnIds |-> 0]]
Board == [tasks |-> tasks, tasks_by_column |-> tasks_by_column,
          active_column |-> active_column, cursor_positions |-> cursor_positions]

\* what the user may type into the add dialog and into the edit dialog
AddInputs == { <<>>, <<SPACE>>, <<"C">>, <<SPACE, "C", SPACE>> }
\* the titles a caller may hand to KanbanBoard.add_task
CallTitles == { <<SPACE>>, <<"C">> }
EditInputs == { <<>>, <<SPACE, SPACE>>, <<"C", SPACE>> }

\* the tasks table when the app starts
EmptyBoard == {}
ScenarioBoard ==
  { [id |-> 1, title |-> <<"A">>, column_id |-> 2, position |-> 0],
    [id |-> 2, title |-> <<"B">>, column_id |-> 2, position |-> 1] }
InitBoards == { EmptyBoard, ScenarioBoard }

\* the inserts and repositions there is room for: at most capacity rows, at
\* positions below capacity (a column that keeps losing its first task would
\* number its tasks without limit)
CanInsert ==
  /\ Cardinality(tasks) < capacity
  /\ next_position(tasks, column_at(active_column).id) < capacity
CanPlace ==
  \/ moving_task = NoTask
  \/ original_column_idx = active_column
  \/ next_position(tasks, column_at(active_column).id) < capacity

\* TodoApp.update_status: the status bar once the handler has run
update_status(message) ==
  status' =
    IF message # NoMessage THEN message
    ELSE IF moving_task' # NoTask THEN Msg("Moving: ", moving_task'.title)
    ELSE IF current_task(tasks_by_column', cursor_positions', active_column') # NoTask
         THEN Msg("Enter: pick up", <<>>)
         ELSE Msg("No tasks", <<>>)

\* history: the handler that ran last and the branch it took
Ran(handler, branch) == last' = [handler |-> handler, branch |-> branch]

\* the branch a dialog's Add / Save / Enter takes on the typed value
Submitted(value) == IF strip(value) = <<>> THEN "submitted blank" ELSE "submitted"

action_move_left ==
  /\ move_cursor_left
  /\ update_status(NoMessage)
  /\ exported' = NoFile
  /\ Ran("move_left", "")
  /\ UNCHANGED << pre, capacity >>

action_move_right ==
  /\ move_cursor_right
  /\ update_status(NoMessage)
  /\ exported' = NoFile
  /\ Ran("move_right", "")
  /\ UNCHANGED << pre, capacity >>

action_move_up ==
  /\ move_cursor_up
  /\ update_status(NoMessage)
  /\ exported' = NoFile
  /\ Ran("move_up", "")
  /\ UNCHANGED << pre, capacity >>

action_move_down ==
  /\ move_cursor_down
  /\ update_status(NoMessage)
  /\ exported' = NoFile
  /\ Ran("move_down", "")
  /\ UNCHANGED << pre, capacity >>

\* Enter: place the task being moved, or pick up the one under the cursor
action_confirm ==
  /\ CanPlace
  /\ IF is_moving
     THEN /\ confirm_move
          /\ update_status(IF moving_task # NoTask
                           THEN Msg("Task moved!", <<>>) ELSE NoMessage)
          /\ pre' = NoPre
          /\ Ran("confirm", IF original_column_idx = active_column
                            THEN "placed back" ELSE "placed")
     ELSE /\ start_moving_task
          /\ IF get_current_task # NoTask
             THEN /\ update_status(NoMessage)
                  /\ pre' = Board
                  /\ Ran("confirm", "picked up")
             ELSE /\ update_status(Msg("No task to move", <<>>))
                  /\ pre' = pre
                  /\ Ran("confirm", "no task")
  /\ exported' = NoFile
  /\ UNCHANGED capacity

\* Escape
action_cancel ==
  /\ cancel_move
  /\ IF moving_task # NoTask
     THEN update_status(Msg("Move cancelled", <<>>)) /\ Ran("cancel", "cancelled")
     ELSE update_status(NoMessage) /\ Ran("cancel", "not moving")
  /\ pre' = NoPre
  /\ exported' = NoFile
  /\ UNCHANGED capacity

(* ------------------------------ modals --------------------------------- *)
\* AddTaskModal.on_button_pressed / on_input_submitted: the dismiss value
AddTaskModal_result(value) ==
  LET title == strip(value) IN IF title # <<>> THEN title ELSE NoTitle

\* EditTaskModal.on_button_pressed / on_input_submitted: the dismiss value
EditTaskModal_result(value) ==
  LET title == strip(value) IN IF title # <<>> THEN title ELSE NoTitle

\* handle_result of action_add_task
add_handle_result(title) ==
  IF truthy(title)
  THEN add_task(title) /\ update_status(Msg("Added: ", title))
  ELSE UNCHANGED << boardvars, status >>

\* handle_result of action_edit_task, task being the one the dialog opened on
edit_handle_result(task, new_title) ==
  IF truthy(new_title)
  THEN LET store == update_task(tasks, task.id, new_title)
       IN /\ tasks' = store
          /\ rebuild(store, refresh_data(store, cursor_positions).cursor_positions)
          /\ update_status(Msg("Updated: ", new_title))
          /\ UNCHANGED << active_column, moving_task, original_column_idx >>
  ELSE UNCHANGED << boardvars, status >>

\* handle_result of action_delete_task
delete_handle_result(confirmed) ==
  IF confirmed
  THEN delete_current_task /\ update_status(Msg("Task deleted", <<>>))
  ELSE UNCHANGED << boardvars, status >>

\* action_add_task with the AddTaskModal it pushes. The app's key bindings are
\* not served while a modal screen is up, so the dialog's answer (Add or Enter
\* on the typed value, or Cancel / Escape) is the next thing that happens.
action_add_task ==
  /\ is_moving \/ CanInsert
  /\ IF is_moving
     THEN /\ UNCHANGED boardvars
          /\ update_status(BlockedMessage)
          /\ Ran("add_task", "blocked")
     ELSE \/ \E value \in AddInputs :
               /\ add_handle_result(AddTaskModal_result(value))
               /\ Ran("add_task", Submitted(value))
          \/ /\ add_handle_result(NoTitle)
             /\ Ran("add_task", "dismissed")
  /\ exported' = NoFile
  /\ UNCHANGED << pre, capacity >>

\* action_edit_task with the EditTaskModal it pushes
action_edit_task ==
  /\ IF is_moving
     THEN /\ UNCHANGED boardvars
          /\ update_status(BlockedMessage)
          /\ Ran("edit_task", "blocked")
     ELSE IF get_current_task = NoTask
     THEN /\ UNCHANGED boardvars
          /\ update_status(Msg("No task to edit", <<>>))
          /\ Ran("edit_task", "no task")
     ELSE \/ \E value \in EditInputs :
               /\ edit_handle_result(get_current_task, EditTaskModal_result(value))
               /\ Ran("edit_task", Submitted(value))
          \/ /\ edit_handle_result(get_current_task, NoTitle)
             /\ Ran("edit_task", "dismissed")
  /\ exported' = NoFile
  /\ UNCHANGED << pre, capacity >>

\* action_delete_task with the DeleteConfirmModal it pushes
action_delete_task ==
  /\ IF is_moving
     THEN /\ UNCHANGED boardvars
          /\ update_status(BlockedMessage)
          /\ Ran("delete_task", "blocked")
     ELSE IF get_current_task = NoTask
     THEN /\ UNCHANGED boardvars
          /\ update_status(Msg("No task to delete", <<>>))
          /\ Ran("delete_task", "no task")
     ELSE \E confirmed \in BOOLEAN :
            /\ delete_handle_result(confirmed)
            /\ Ran("delete_task", IF confirmed THEN "confirmed" ELSE "dismissed")
  /\ exported' = NoFile
  /\ UNCHANGED << pre, capacity >>

action_export_column ==
  /\ IF is_moving
     THEN /\ update_status(BlockedMessage)
          /\ exported' = NoFile
          /\ Ran("export_column", "blocked")
     ELSE LET col == column_at(active_column)
              col_tasks == tasks_by_column[col.id]
          IN /\ exported' =
                  [filename |-> col.name,
                   lines |-> [i \in 1..Len(col_tasks) |-> col_tasks[i].title]]
             /\ update_status(Msg("Exported", <<col.name>>))
             /\ Ran("export_column", "written")
  /\ UNCHANGED << boardvars, pre, capacity >>

(* --------------------------- specification ----------------------------- *)
\* KanbanBoard.__init__ on the stored board, then TodoApp.on_mount
Start(boards, rows) ==
  /\ tasks \in boards
  /\ capacity = rows
  /\ LET r == refresh_data(tasks, [c \in ColumnIds |-> 0])
     IN /\ tasks_by_column = r.tasks_by_column
        /\ cursor_positions = r.cursor_positions
        /\ status = IF current_task(r.tasks_by_column, r.cursor_positions, 0) # NoTask
                    THEN Msg("Enter: pick up", <<>>)
                    ELSE Msg("No tasks", <<>>)
  /\ active_column = 0
  /\ moving_task = NoTask
  /\ original_column_idx = None
  /\ exported = NoFile
  /\ pre = NoPre
  /\ last = [handler |-> "on_mount", branch |-> ""]

\* the interaction loop: one key binding of TodoApp at a time
Next ==
  \/ action_move_left
  \/ action_move_right
  \/ action_move_up
  \/ action_move_down
  \/ action_confirm
  \/ action_cancel
  \/ action_add_task
  \/ action_edit_task
  \/ action_delete_task
  \/ action_export_column

Init == Start(InitBoards, MaxTasks)

Spec == Init /\ [][Next]_vars

\* the run of the scenario: Todo empty, Doing holding A and B
InitScenario == Start({ScenarioBoard}, ScenarioTasks)

SpecScenario == InitScenario /\ [][Next]_vars

(* ---------------- the controller called without the app ---------------- *)
call_move_cursor_left ==
  /\ move_cursor_left
  /\ UNCHANGED << appvars, pre, capacity, last >>

call_move_cursor_right ==
  /\ move_cursor_right
  /\ UNCHANGED << appvars, pre, capacity, last >>

call_move_cursor_up ==
  /\ move_cursor_up
  /\ UNCHANGED << appvars, pre, capacity, last >>

call_move_cursor_down ==
  /\ move_cursor_down
  /\ UNCHANGED << appvars, pre, capacity, last >>

call_start_moving_task ==
  /\ start_moving_task
  /\ UNCHANGED << appvars, pre, capacity, last >>

call_confirm_move ==
  /\ CanPlace
  /\ confirm_move
  /\ UNCHANGED << appvars, pre, capacity, last >>

call_cancel_move ==
  /\ cancel_move
  /\ UNCHANGED << appvars, pre, capacity, last >>

call_add_task ==
  /\ CanInsert
  /\ \E title \in CallTitles : add_task(title)
  /\ UNCHANGED << appvars, pre, capacity, last >>

call_delete_current_task ==
  /\ delete_current_task
  /\ UNCHANGED << appvars, pre, capacity, last >>

\* any caller of KanbanBoard: one of its methods at a time
NextBoard ==
  \/ call_move_cursor_left
  \/ call_move_cursor_right
  \/ call_move_cursor_up
  \/ call_move_cursor_down
  \/ call_start_moving_task
  \/ call_confirm_move
  \/ call_cancel_move
  \/ call_add_task
  \/ call_delete_current_task

SpecBoard == Init /\ [][NextBoard]_vars

(* ------------------- the store failing under the app ------------------- *)
\* a models call that raises: before its commit the table is as it was, after
\* it (the closing get_task_by_id raising) the row is written
raises(store, written) == {store, written}

\* confirm_move that clears the move before it calls models.move_task
confirm_move_raises_after_clear ==
  /\ moving_task # NoTask
  /\ original_column_idx # active_column
  /\ tasks' \in raises(tasks, move_task(tasks, moving_task.id,
                                        column_at(active_column).name))
  /\ moving_task' = NoTask
  /\ original_column_idx' = None
  /\ UNCHANGED << tasks_by_column, active_column, cursor_positions >>

\* KanbanBoard.confirm_move up to models.move_task raising
confirm_move_raises ==
  /\ moving_task # NoTask
  /\ original_column_idx # active_column
  /\ tasks' \in raises(tasks, move_task(tasks, moving_task.id,
                                        column_at(active_column).name))
  /\ UNCHANGED << tasks_by_column, active_column, cursor_positions,
                  moving_task, original_column_idx >>

\* KanbanBoard.add_task up to models.add_task raising
add_task_raises(title) ==
  /\ tasks' \in raises(tasks, add_task_row(tasks, title,
                                           column_at(active_column).name))
  /\ UNCHANGED << tasks_by_column, active_column, cursor_positions,
                  moving_task, original_column_idx >>

\* handle_result of action_edit_task up to models.update_task raising
edit_handle_result_raises(task, new_title) ==
  /\ truthy(new_title)
  /\ tasks' \in raises(tasks, update_task(tasks, task.id, new_title))
  /\ UNCHANGED << tasks_by_column, active_column, cursor_positions,
                  moving_task, original_column_idx >>

\* KanbanBoard.delete_current_task up to models.delete_task raising
delete_current_task_raises ==
  /\ get_current_task # NoTask
  /\ tasks' \in raises(tasks, delete_task(tasks, get_current_task.id))
  /\ UNCHANGED << tasks_by_column, active_column, cursor_positions,
                  moving_task, original_column_idx >>

\* the exception leaves the handler: update_status is not reached
Raised(handler) ==
  /\ Ran(handler, "raised")
  /\ exported' = NoFile
  /\ UNCHANGED << status, pre, capacity >>

\* an exception that leaves a handler ends the app: no key is served after it
crashed == last.branch = "raised"

action_confirm_raises ==
  /\ ~crashed
  /\ is_moving
  /\ CanPlace
  /\ confirm_move_raises
  /\ Raised("confirm")

action_add_task_raises ==
  /\ ~crashed
  /\ ~is_moving
  /\ CanInsert
  /\ \E value \in AddInputs :
       /\ truthy(AddTaskModal_result(value))
       /\ add_task_raises(AddTaskModal_result(value))
  /\ Raised("add_task")

action_edit_task_raises ==
  /\ ~crashed
  /\ ~is_moving
  /\ get_current_task # NoTask
  /\ \E value \in EditInputs :
       edit_handle_result_raises(get_current_task, EditTaskModal_result(value))
  /\ Raised("edit_task")

action_delete_task_raises ==
  /\ ~crashed
  /\ ~is_moving
  /\ delete_current_task_raises
  /\ Raised("delete_task")

\* the interaction loop over a store whose calls may raise
NextStoreFails ==
  \/ ~crashed /\ action_move_left
  \/ ~crashed /\ action_move_right
  \/ ~crashed /\ action_move_up
  \/ ~crashed /\ action_move_down
  \/ ~crashed /\ action_confirm
  \/ ~crashed /\ action_cancel
  \/ ~crashed /\ action_add_task
  \/ ~crashed /\ action_edit_task
  \/ ~crashed /\ action_delete_task
  \/ ~crashed /\ action_export_column
  \/ action_confirm_raises
  \/ action_add_task_raises
  \/ action_edit_task_raises
  \/ action_delete_task_raises

SpecStoreFails == Init /\ [][NextStoreFails]_vars

(* ------------------------------- claims -------------------------------- *)
\* the rows of the store that a column holds
rows_of(store, column_id) == {t \in store : t.column_id = column_id}

\* C1: after every command the active column index is the index of a column,
\* and every column's cursor is an index of its snapshot list, or 0 when the
\* list is empty.
C1_CursorsInBounds ==
  /\ active_column \in 0..(Len(columns) - 1)
  /\ \A c \in ColumnIds :
       LET n == Len(tasks_by_column[c])
       IN IF n > 0 THEN cursor_positions[c] \in 0..(n - 1)
                   ELSE cursor_positions[c] = 0

\* a task was deleted from a column other than the first and the column still
\* holds one: the cursor was reconciled with the shorter list
C1_Witness ==
  /\ last = [handler |-> "delete_task", branch |-> "confirmed"]
  /\ active_column > 0
  /\ Len(tasks_by_column[column_at(active_column).id]) = 1
  /\ C1_CursorsInBounds

\* C2: while a task is being moved, the add, edit, delete and export handlers
\* change nothing of the store, the snapshot, the cursors, the active column
\* or the move session, write no file, and show the blocked message.
C2_MutationsBlockedWhileMoving ==
  [][ ( /\ moving_task # NoTask
        /\ \/ action_add_task
           \/ action_edit_task
           \/ action_delete_task
           \/ action_export_column )
      => ( /\ UNCHANGED boardvars
           /\ exported' = NoFile
           /\ status' = BlockedMessage ) ]_vars

\* a mutation command has just been turned down during a move
C2_Witness ==
  /\ moving_task # NoTask
  /\ last.handler \in {"add_task", "edit_task", "delete_task", "export_column"}
  /\ last.branch = "blocked"
  /\ status = BlockedMessage

\* C3: while a task is being moved, up and down change no cursor and nothing
\* else of the controller or the store.
C3_VerticalBlockedWhileMoving ==
  [][ (moving_task # NoTask /\ (action_move_up \/ action_move_down))
      => UNCHANGED boardvars ]_vars

\* up or down was pressed during a move, in a column with two tasks to step
\* between
C3_Witness ==
  /\ moving_task # NoTask
  /\ last.handler \in {"move_up", "move_down"}
  /\ Len(tasks_by_column[column_at(active_column).id]) > 1

\* C4: cancel, after a pick-up and whatever navigation followed it, puts the
\* store, the snapshot, the active column and the cursors back to what they
\* were just before the pick-up, and ends the move session.
C4_CancelRestoresBoard ==
  [][ (moving_task # NoTask /\ action_cancel)
      => ( /\ tasks' = pre.tasks
           /\ tasks_by_column' = pre.tasks_by_column
           /\ active_column' = pre.active_column
           /\ cursor_positions' = pre.cursor_positions
           /\ moving_task' = NoTask
           /\ original_column_idx' = None ) ]_vars

\* a move that started in the second or third column has just been cancelled
C4_Witness ==
  /\ last = [handler |-> "cancel", branch |-> "cancelled"]
  /\ status = Msg("Move cancelled", <<>>)
  /\ active_column > 0
  /\ get_current_task # NoTask
  /\ moving_task = NoTask

\* C5: a place in a column other than the origin leaves the moved task in the
\* destination column at the position equal to the number of tasks that
\* column held before the place.
C5_PlacedAtPriorCount ==
  [][ (moving_task # NoTask /\ action_confirm
       /\ original_column_idx # active_column)
      => LET dest == column_at(active_column).id
             moved == get_task_by_id(tasks', moving_task.id)
         IN /\ moved.column_id = dest
            /\ moved.position = Len(tasks_by_column[dest]) ]_vars

\* C6: in every state of the store the positions of each column's tasks are
\* exactly 0..N-1.
C6_PositionsDense ==
  \A c \in ColumnIds :
    {t.position : t \in rows_of(tasks, c)}
      = 0..(Cardinality(rows_of(tasks, c)) - 1)

\* C7: a place in the column the task was picked up in changes no row of the
\* store (every task keeps the column, position and title it had before the
\* pick-up) and ends the move session.
C7_PlaceBackLeavesStore ==
  [][ (moving_task # NoTask /\ action_confirm
       /\ original_column_idx = active_column)
      => ( /\ tasks' = pre.tasks
           /\ tasks' = tasks
           /\ moving_task' = NoTask
           /\ original_column_idx' = None ) ]_vars

\* a task has just been placed back into its own column
C7_Witness ==
  /\ last = [handler |-> "confirm", branch |-> "placed back"]
  /\ status = Msg("Task moved!", <<>>)
  /\ moving_task = NoTask
  /\ tasks # {}

\* C8: after every place, in the origin column or another, the cursor of the
\* column placed in is that column's last index and the task under the cursor
\* is the task that was placed.
C8_PlacedTaskSelected ==
  [][ (moving_task # NoTask /\ action_confirm)
      => LET c == column_at(active_column).id
         IN /\ cursor_positions'[c] = Len(tasks_by_column'[c]) - 1
            /\ current_task(tasks_by_column', cursor_positions',
                            active_column').id = moving_task.id ]_vars

\* the rows of the scenario
TaskA(column_id, position) ==
  [id |-> 1, title |-> <<"A">>, column_id |-> column_id, position |-> position]
TaskB(column_id, position) ==
  [id |-> 2, title |-> <<"B">>, column_id |-> column_id, position |-> position]
TaskC(column_id, position) ==
  [id |-> 3, title |-> <<"C">>, column_id |-> column_id, position |-> position]

\* C9: with Todo empty and Doing holding A at 0 and B at 1, adding C to Todo
\* gives Todo = [C] with C at position 0 and cursor 0; picking up A in Doing
\* and placing it in Todo then gives Todo = [C, A] with A at position 1 and
\* cursor 1, and Doing = [B] with B at position 0.
C9_Scenario ==
  [][ /\ ( /\ tasks = ScenarioBoard
           /\ active_column = 0
           /\ action_add_task
           /\ status' = Msg("Added: ", <<"C">>) )
         => ( /\ tasks_by_column'[1] = << TaskC(1, 0) >>
              /\ cursor_positions'[1] = 0 )
      /\ ( /\ tasks = {TaskA(2, 0), TaskB(2, 1), TaskC(1, 0)}
           /\ moving_task = TaskA(2, 0)
           /\ original_column_idx = 1
           /\ active_column = 0
           /\ action_confirm )
         => ( /\ tasks_by_column'[1] = << TaskC(1, 0), TaskA(1, 1) >>
              /\ cursor_positions'[1] = 1
              /\ tasks_by_column'[2] = << TaskB(2, 0) >> ) ]_vars

\* C10: a title that is empty once trimmed never becomes a task, whoever asks
\* the controller to add it.
C10_NoBlankTitleStored ==
  \A t \in tasks : strip(t.title) # <<>>

\* the messages with which a handler turns a command down
Rejections ==
  { BlockedMessage,
    Msg("No task to move", <<>>),
    Msg("No task to edit", <<>>),
    Msg("No task to delete", <<>>) }

\* C11: saving the empty string as the current task's title leaves the task
\* and all the rest of the board unchanged, and the handler reports the
\* rejection in the status bar.
C11_BlankEditRejected ==
  [][ (action_edit_task
       /\ last' = [handler |-> "edit_task", branch |-> "submitted blank"])
      => ( /\ UNCHANGED boardvars
           /\ status' \in Rejections ) ]_vars

\* C12: a confirmed delete with no move under way removes the task under the
\* cursor and no other; the active column's cursor is then 0 if the column is
\* empty, and otherwise the smaller of its old index and the new last index.
C12_DeleteRemovesCurrent ==
  [][ (action_delete_task
       /\ last' = [handler |-> "delete_task", branch |-> "confirmed"])
      => LET task == get_current_task
             c == column_at(active_column).id
             n == Cardinality(rows_of(tasks', c))
         IN /\ moving_task = NoTask
            /\ task \in tasks
            /\ tasks' = tasks \ {task}
            /\ cursor_positions'[c] =
                 IF n = 0 THEN 0 ELSE Min(cursor_positions[c], n - 1) ]_vars

\* the first of three tasks of a column has just been deleted: the cursor
\* stays at index 0, short of the new last index
C12_Witness ==
  /\ last = [handler |-> "delete_task", branch |-> "confirmed"]
  /\ Len(tasks_by_column[column_at(active_column).id]) = 2
  /\ cursor_positions[column_at(active_column).id] = 0
  /\ Cardinality(tasks) = 2

\* C13: adding a non-empty title with no move under way adds exactly one task,
\* in the active column and ordered after all the tasks the column held; the
\* column's cursor is then its new last index, the task under the cursor is
\* the new one, and the other columns keep their tasks.
C13_AddAppendsAndSelects ==
  [][ (action_add_task
       /\ last' = [handler |-> "add_task", branch |-> "submitted"])
      => LET c == column_at(active_column).id
             new == tasks' \ tasks
         IN /\ moving_task = NoTask
            /\ tasks \subseteq tasks'
            /\ Cardinality(new) = 1
            /\ \A t \in new :
                 /\ t.column_id = c
                 /\ t.title # <<>>
                 /\ \A u \in rows_of(tasks, c) : u.position < t.position
                 /\ tasks_by_column'[c] = Append(tasks_by_column[c], t)
                 /\ current_task(tasks_by_column', cursor_positions',
                                 active_column') = t
            /\ cursor_positions'[c] = Len(tasks_by_column'[c]) - 1
            /\ \A d \in ColumnIds \ {c} :
                 tasks_by_column'[d] = tasks_by_column[d] ]_vars

\* a task has just been added to a column that already held one
C13_Witness ==
  /\ last = [handler |-> "add_task", branch |-> "submitted"]
  /\ status = Msg("Added: ", <<"C">>)
  /\ Len(tasks_by_column[column_at(active_column).id]) = 2
  /\ cursor_positions[column_at(active_column).id] = 1

\* C14: a pick-up in an empty active column (no task under the cursor) is
\* answered false: no move session starts and nothing of the board changes;
\* a pick-up with a task under the cursor is answered true and records that
\* task with the active column index of that moment as its origin.
C14_PickUpNeedsCurrentTask ==
  [][ (moving_task = NoTask /\ action_confirm)
      => IF tasks_by_column[column_at(active_column).id] = <<>>
         THEN /\ get_current_task = NoTask
              /\ UNCHANGED boardvars
              /\ status' = Msg("No task to move", <<>>)
         ELSE /\ get_current_task # NoTask
              /\ moving_task' = get_current_task
              /\ original_column_idx' = active_column
              /\ status' = Msg("Moving: ", get_current_task.title)
              /\ UNCHANGED << tasks, tasks_by_column, active_column,
                              cursor_positions >> ]_vars

\* the second task of the second or third column has just been picked up
C14_Witness ==
  /\ last = [handler |-> "confirm", branch |-> "picked up"]
  /\ original_column_idx = active_column
  /\ active_column > 0
  /\ cursor_positions[column_at(active_column).id] = 1
  /\ moving_task = get_current_task

\* C15: saving a non-empty title changes the title of the task under the
\* cursor and nothing else: the cursors, the active column and every task's
\* column and position stay as they were.
C15_EditChangesTitleOnly ==
  [][ (action_edit_task
       /\ last' = [handler |-> "edit_task", branch |-> "submitted"])
      => LET task == get_current_task
         IN /\ task \in tasks
            /\ \E title \in {strip(value) : value \in EditInputs} \ {<<>>} :
                 tasks' = (tasks \ {task}) \cup {[task EXCEPT !.title = title]}
            /\ tasks_by_column' =
                 [c \in ColumnIds |-> get_tasks_by_column(tasks', c)]
            /\ UNCHANGED << cursor_positions, active_column,
                            moving_task, original_column_idx >> ]_vars

\* the second of two tasks of a column has just been retitled; the first
\* keeps its title
C15_Witness ==
  /\ last = [handler |-> "edit_task", branch |-> "submitted"]
  /\ status = Msg("Updated: ", <<"C">>)
  /\ cursor_positions[column_at(active_column).id] = 1
  /\ get_current_task.title = <<"C">>
  /\ tasks_by_column[column_at(active_column).id][1].title = <<"A">>

\* C16: in every state the task under the cursor is the task at the active
\* column's cursor index in the snapshot, and there is none exactly when the
\* active column has no tasks.
C16_CurrentTaskAtCursor ==
  LET c == column_at(active_column).id
      col_tasks == tasks_by_column[c]
      pos == cursor_positions[c]
  IN /\ (get_current_task = NoTask) <=> (col_tasks = <<>>)
     /\ col_tasks # <<>> =>
          /\ pos + 1 \in DOMAIN col_tasks
          /\ get_current_task = col_tasks[pos + 1]

\* the cursor is on the second task of the second or third column
C16_Witness ==
  /\ active_column > 0
  /\ cursor_positions[column_at(active_column).id] = 1
  /\ get_current_task # NoTask
  /\ get_current_task =
       tasks_by_column[column_at(active_column).id][2]

\* C17: after every command the snapshot equals the store: each column's
\* list in the snapshot is exactly the store's tasks of that column, ordered
\* by position.
C17_SnapshotEqualsStore ==
  /\ \A c \in ColumnIds :
       /\ {tasks_by_column[c][i] : i \in DOMAIN tasks_by_column[c]}
            = rows_of(tasks, c)
       /\ Len(tasks_by_column[c]) = Cardinality(rows_of(tasks, c))
       /\ \A i, j \in DOMAIN tasks_by_column[c] :
            i < j => tasks_by_column[c][i].position
                       < tasks_by_column[c][j].position

\* a task has just been placed in another column, which now holds two
C17_Witness ==
  /\ last = [handler |-> "confirm", branch |-> "placed"]
  /\ Len(tasks_by_column[column_at(active_column).id]) = 2
  /\ rows_of(tasks, column_at(active_column).id) = tasks

\* C18: a move session does not outlive a snapshot reload that is not part of
\* its own resolution: after the reload done by a left or right step, or by
\* the pick-up itself, no task is being moved.
C18_NoMoveAfterRefresh ==
  [][ ( \/ (action_move_left \/ action_move_right)
             /\ active_column' # active_column
        \/ action_confirm
             /\ last' = [handler |-> "confirm", branch |-> "picked up"] )
      => moving_task' = NoTask ]_vars

\* C18, as the code has it: the reloads done by left and right steps and by
\* the pick-up leave the move session as it is (the same task, the same
\* origin), and only place and cancel end it.
C18_MoveSurvivesRefresh ==
  [][ /\ (moving_task # NoTask /\ (action_move_left \/ action_move_right))
           => UNCHANGED << moving_task, original_column_idx >>
      /\ (action_confirm
           /\ last' = [handler |-> "confirm", branch |-> "picked up"])
           => moving_task' # NoTask
      /\ (moving_task # NoTask /\ moving_task' = NoTask)
           => (action_confirm \/ action_cancel) ]_vars

\* a left or right step has just reloaded the snapshot during a move, and the
\* task is still being moved, away from its origin column
C18_Witness ==
  /\ last.handler \in {"move_left", "move_right"}
  /\ moving_task # NoTask
  /\ original_column_idx # active_column
  /\ status = Msg("Moving: ", moving_task.title)

\* C19: when the store call of a place, an add, an edit or a delete fails,
\* nothing of the command is applied to the controller: the move session, the
\* active column, the cursors and the snapshot are as they were before it,
\* and the store call is made once only (at most one row is written).
C19_StoreFailureAppliesNothing ==
  [][ ( \/ action_confirm_raises
        \/ action_add_task_raises
        \/ action_edit_task_raises
        \/ action_delete_task_raises )
      => ( /\ UNCHANGED << moving_task, original_column_idx, active_column,
                           cursor_positions, tasks_by_column >>
           /\ Cardinality(tasks' \ tasks) <= 1
           /\ Cardinality(tasks \ tasks') <= 1 ) ]_vars

\* a place in another column has just failed: the task is still being moved
C19_Witness ==
  /\ last = [handler |-> "confirm", branch |-> "raised"]
  /\ moving_task # NoTask
  /\ original_column_idx # active_column
  /\ original_column_idx # None

(* ------------- the reload under a store that others write too ------------- *)
\* the rows the Doing column may hold, at positions 0, 1, ...
RefreshRows ==
  { [id |-> i, title |-> <<"A">>, column_id |-> 2, position |-> i - 1] :
      i \in 1..ScenarioTasks }

\* the cursors a controller may hold for a store it has loaded
ValidCursors(store) ==
  { cursors \in [ColumnIds -> 0..Cardinality(store)] :
      \A c \in ColumnIds :
        cursors[c] <= Max(0, Cardinality(rows_of(store, c)) - 1) }

\* a controller that loaded one board, its cursors anywhere on it, and a
\* store that the command line (main.py add, rm) has since made another
InitRefresh ==
  /\ tasks \in SUBSET RefreshRows
  /\ capacity = ScenarioTasks
  /\ \E loaded \in SUBSET RefreshRows :
       /\ tasks_by_column = [c \in ColumnIds |-> get_tasks_by_column(loaded, c)]
       /\ cursor_positions \in ValidCursors(loaded)
  /\ active_column = 0
  /\ moving_task = NoTask
  /\ original_column_idx = None
  /\ status = NoMessage
  /\ exported = NoFile
  /\ pre = NoPre
  /\ last = [handler |-> "__init__", branch |-> ""]

\* KanbanBoard.refresh_data called on its own
call_refresh_data ==
  /\ rebuild(tasks, cursor_positions)
  /\ pre' = Board
  /\ Ran("refresh_data", "")
  /\ UNCHANGED << tasks, active_column, moving_task, original_column_idx,
                  appvars, capacity >>

NextRefresh == call_refresh_data

SpecRefresh == InitRefresh /\ [][NextRefresh]_vars

\* C20: reconciling the cursors is idempotent (a reload run again on an
\* unchanged store gives the cursors the first run gave) and a reload raises
\* no column's stored index.
C20_ReconcileIdempotent ==
  [][ call_refresh_data
      => ( /\ refresh_data(tasks', cursor_positions').cursor_positions
                = cursor_positions'
           /\ \A c \in ColumnIds : cursor_positions'[c] <= cursor_positions[c]
           /\ last.handler = "refresh_data"
                => cursor_positions' = cursor_positions ) ]_vars

\* a reload has just pulled the Doing cursor back from index 2 to the only
\* task the column still holds
C20_Witness ==
  /\ last.handler = "refresh_data"
  /\ pre.tasks = tasks
  /\ pre.cursor_positions[2] = 2
  /\ Len(pre.tasks_by_column[2]) = 3
  /\ cursor_positions[2] = 0
  /\ Len(tasks_by_column[2]) = 1

(* ---------------- the clamp on any index a column may store --------------- *)
\* the integers drawn as a column's stored index: below zero, on the column,
\* and above its last index
StoredIndexes == (-1)..ScenarioTasks

\* a controller whose cursor_positions holds any of these for every column
InitReconcile ==
  /\ tasks \in SUBSET RefreshRows
  /\ capacity = ScenarioTasks
  /\ tasks_by_column = [c \in ColumnIds |-> get_tasks_by_column(tasks, c)]
  /\ cursor_positions \in [ColumnIds -> StoredIndexes]
  /\ active_column = 0
  /\ moving_task = NoTask
  /\ original_column_idx = None
  /\ status = NoMessage
  /\ exported = NoFile
  /\ pre = NoPre
  /\ last = [handler |-> "__init__", branch |-> ""]

SpecReconcile == InitReconcile /\ [][NextRefresh]_vars

\* an index of a list of n tasks, or 0 for the empty list
InRange(idx, n) == IF n > 0 THEN idx \in 0..(n - 1) ELSE idx = 0

C22_NavigationFrame ==
  [][ /\ (action_move_left \/ action_move_right \/
           action_move_up \/ action_move_down)
           => UNCHANGED << tasks, tasks_by_column, moving_task,
                           original_column_idx >>
      /\ action_move_left
           => /\ active_column' = Max(0, active_column - 1)
              /\ UNCHANGED cursor_positions
      /\ action_move_right
           => /\ active_column' = Min(Len(columns) - 1, active_column + 1)
              /\ UNCHANGED cursor_positions
      /\ (moving_task = NoTask /\ (action_move_up \/ action_move_down))
           => LET c == column_at(active_column).id
                  n == Len(tasks_by_column[c])
                  step == IF action_move_up THEN -1 ELSE 1
              IN /\ UNCHANGED active_column
                 /\ \A d \in ColumnIds \ {c} :
                      cursor_positions'[d] = cursor_positions[d]
                 /\ cursor_positions'[c] =
                      IF n > 0 /\ cursor_positions[c] + step \in 0..(n - 1)
                      THEN cursor_positions[c] + step
                      ELSE cursor_positions[c] ]_vars

\* a left step has just been taken during a move, out of a column whose
\* cursor is kept on its second task
C22_Witness ==
  /\ last.handler = "move_left"
  /\ moving_task # NoTask
  /\ original_column_idx = active_column + 1
  /\ cursor_positions[column_at(original_column_idx).id] = 1

(* -------------------- a user who ends the moves begun -------------------- *)
\* Enter or Escape pressed while a task is being moved
resolve == moving_task # NoTask /\ (action_confirm \/ action_cancel)

\* the interaction loop of a user who does not leave a move unresolved for
\* ever
SpecResolving == Init /\ [][Next]_vars /\ WF_vars(resolve)

\* C23: a move can always be resolved. Wherever a task is being moved, Enter
\* and Escape are both accepted (Enter wherever the table has room for the
\* row) and each ends the move in one step; and if the user keeps to ending
\* the moves begun, every move is eventually followed by no move.
C23_MovingResolvable ==
  /\ [](moving_task # NoTask
          => /\ ENABLED (action_cancel /\ moving_task' = NoTask)
             /\ CanPlace => ENABLED (action_confirm /\ moving_task' = NoTask))
  /\ [][resolve => moving_task' = NoTask]_vars
  /\ (moving_task # NoTask) ~> (moving_task = NoTask)

\* a move has just been ended by Escape, on a board that is full
C23_Witness ==
  /\ last = [handler |-> "cancel", branch |-> "cancelled"]
  /\ moving_task = NoTask
  /\ pre = NoPre
  /\ tasks_by_column[column_at(active_column).id] # <<>>
  /\ Cardinality(tasks) = MaxTasks

\* C24: while a task is being moved, the session keeps the task and the
\* origin column index that the pick-up captured; that task is still in the
\* store and in the snapshot, in the column at the origin index; and Enter
\* during a move never picks up a second task.
C24_SessionFixed ==
  /\ [](moving_task # NoTask
          => /\ moving_task = current_task(pre.tasks_by_column,
                                           pre.cursor_positions,
                                           pre.active_column)
             /\ original_column_idx = pre.active_column
             /\ moving_task \in tasks
             /\ moving_task.column_id = column_at(original_column_idx).id
             /\ \E i \in DOMAIN tasks_by_column[moving_task.column_id] :
                  tasks_by_column[moving_task.column_id][i] = moving_task)
  /\ [][moving_task # NoTask
        => /\ \/ UNCHANGED << moving_task, original_column_idx >>
              \/ moving_task' = NoTask
           /\ last'.branch # "picked up"]_vars

\* a task picked up in the third column is held over the first column
C24_Witness ==
  /\ moving_task # NoTask
  /\ original_column_idx = 2
  /\ active_column = 0
  /\ moving_task.column_id = 3
  /\ last.handler = "move_left"

\* C25: in every state the two fields of the move session agree: there is a
\* task being moved exactly when there is an origin column index, which is
\* then the index of a column; and is_moving() is true exactly between a
\* pick-up that succeeded and the next place or cancel.
C25_SessionFieldsAgree ==
  /\ (moving_task = NoTask) <=> (original_column_idx = None)
  /\ moving_task # NoTask => original_column_idx \in 0..(Len(columns) - 1)
  /\ is_moving <=> (pre # NoPre)

\* a task has just been placed in the third column: both fields are cleared
C25_Witness ==
  /\ last = [handler |-> "confirm", branch |-> "placed"]
  /\ active_column = 2
  /\ moving_task = NoTask
  /\ original_column_idx = None
  /\ ~is_moving

\* C26: in every state of the store no two tasks of a column have the same
\* position, whatever adds, deletes and places came before, those that leave
\* gaps in a column's positions included.
C26_PositionsDistinct ==
  \A t, u \in tasks :
    (t.column_id = u.column_id /\ t.position = u.position) => t = u

\* a column that lost its first task has been appended to: its two tasks are
\* at positions 1 and 2
C26_Witness ==
  \E c \in ColumnIds :
    /\ {t.position : t \in rows_of(tasks, c)} = {1, 2}
    /\ Cardinality(rows_of(tasks, c)) = 2

\* task a comes before task b in a column's list
Precedes(col_tasks, a, b) ==
  \E i, j \in DOMAIN col_tasks :
    i < j /\ col_tasks[i].id = a /\ col_tasks[j].id = b

\* the tasks that two lists of a column both hold keep their order
SameRelativeOrder(before, after) ==
  \A i, j \in DOMAIN before :
    LET a == before[i].id
        b == before[j].id
    IN (i < j /\ (\E k \in DOMAIN after : after[k].id = a)
              /\ (\E k \in DOMAIN after : after[k].id = b))
       => Precedes(after, a, b)

\* C27: tasks are conserved and keep their relative order: navigation,
\* pick-up and cancel change no task; place changes the column and position
\* of the moved task and nothing else; delete removes exactly one task; and
\* after a place or a delete the tasks left in every column are in the order
\* they were in.
C27_TasksConserved ==
  [][ /\ ( \/ action_move_left \/ action_move_right
           \/ action_move_up \/ action_move_down
           \/ action_cancel
           \/ (moving_task = NoTask /\ action_confirm) )
           => UNCHANGED tasks
      /\ (moving_task # NoTask /\ action_confirm)
           => /\ tasks \ {moving_task} \subseteq tasks'
              /\ Cardinality(tasks') = Cardinality(tasks)
              /\ \A t \in tasks' \ tasks :
                   /\ t.id = moving_task.id
                   /\ t.title = moving_task.title
      /\ action_delete_task
           => /\ tasks' \subseteq tasks
              /\ Cardinality(tasks \ tasks') =
                   IF last'.branch = "confirmed" THEN 1 ELSE 0
      /\ ( \/ (moving_task # NoTask /\ action_confirm)
           \/ action_delete_task )
           => \A c \in ColumnIds :
                SameRelativeOrder(tasks_by_column[c], tasks_by_column'[c]) ]_vars

\* the middle one of three tasks of a column has just been deleted: the two
\* left are in the order they were in
C27_Witness ==
  /\ last = [handler |-> "delete_task", branch |-> "confirmed"]
  /\ \E c \in ColumnIds :
       /\ Len(tasks_by_column[c]) = 2
       /\ tasks_by_column[c][1].position = 0
       /\ tasks_by_column[c][2].position = 2

\* C28: the selection is an index, not a task. After the task at cursor index
\* i is deleted from a column that held more than i+1 tasks, the cursor is
\* still i and the task under it is the one that followed the deleted one;
\* after a task is moved out of a column, that column's cursor is its old
\* index clamped to the column's new last index.
C28_SelectionByIndex ==
  [][ /\ (action_delete_task
           /\ last' = [handler |-> "delete_task", branch |-> "confirmed"])
           => LET c == column_at(active_column).id
                  i == cursor_positions[c]
                  col_tasks == tasks_by_column[c]
              IN Len(col_tasks) > i + 1
                 => /\ cursor_positions'[c] = i
                    /\ current_task(tasks_by_column', cursor_positions',
                                    active_column') = col_tasks[i + 2]
      /\ (moving_task # NoTask /\ action_confirm
           /\ original_column_idx # active_column)
           => LET o == column_at(original_column_idx).id
                  n == Len(tasks_by_column'[o])
              IN /\ n = Len(tasks_by_column[o]) - 1
                 /\ cursor_positions'[o] =
                      IF n = 0 THEN 0 ELSE Min(cursor_positions[o], n - 1)
    ]_vars

\* the middle one of three tasks of a column has just been deleted: the
\* cursor is still at index 1, on the task that was the third
C28_Witness ==
  /\ last = [handler |-> "delete_task", branch |-> "confirmed"]
  /\ cursor_positions[column_at(active_column).id] = 1
  /\ Len(tasks_by_column[column_at(active_column).id]) = 2
  /\ get_current_task.position = 2
  /\ tasks_by_column[column_at(active_column).id][1].position = 0

====
